---- MODULE Spec2Model ----
(***************************************************************************)
(* Model of the group resolution pipeline of src/usecases/resume_mapper.py *)
(* (worker threads draining group_queue, search_batch with retries behind  *)
(* opensearch_semaphore, verification, INSERT IGNORE + commit, and the     *)
(* processed_groups.txt checkpoint log) and of the port layout written by  *)
(* src/docker/generate_docker_compose.py.                                  *)
(*                                                                         *)
(* Strings are sequences of one-character strings, so that formatting a    *)
(* group id, str.isdigit, str.strip and int() are computed as Python       *)
(* computes them.                                                          *)
(***************************************************************************)
EXTENDS Integers, Sequences, FiniteSets, TLC

(***************************************************************************)
(* Bounds of the model.  The code runs 100 threads behind a semaphore of   *)
(* 20 permits against 40 nodes, with 50 variations per query, pages of     *)
(* 2000 hits: the model keeps the shape (more threads than permits, one    *)
(* more port than nodes, several batches, several pages) at small sizes.   *)
(***************************************************************************)
NumWorkers == 2
PermitCapacity == 1
MaxGroupId == 1
MaxRuns == 2
MainFaults == 1
SearchFaults == 6
node_count == 2
batch_size == 2
MaxAliasLen == 3
PageSize == 1

(* Program constants. *)
max_retries == 5
NodePortsStart == 9500
http_start_port == 9501

Workers == 1..NumWorkers

(***************************************************************************)
(* Text.                                                                   *)
(***************************************************************************)
DigitChars == <<"0", "1", "2", "3", "4", "5", "6", "7", "8", "9">>

Whitespace == {" ", "\n", "\t"}

Punctuation == {"-", "!", ".", ","}

IsDigitChar(c) == \E i \in 1..10 : DigitChars[i] = c

DigitValue(c) == (CHOOSE i \in 1..10 : DigitChars[i] = c) - 1

RECURSIVE NatStr(_)
NatStr(n) == IF n < 10 THEN <<DigitChars[n + 1]>>
             ELSE NatStr(n \div 10) \o <<DigitChars[(n % 10) + 1]>>

(* f"{groupid}": the decimal text of an int, "-" first for a negative one. *)
IntStr(n) == IF n < 0 THEN <<"-">> \o NatStr(0 - n) ELSE NatStr(n)

RECURSIVE LStrip(_)
LStrip(s) == IF s # <<>> /\ Head(s) \in Whitespace THEN LStrip(Tail(s)) ELSE s

RECURSIVE RStrip(_)
RStrip(s) == IF s # <<>> /\ s[Len(s)] \in Whitespace
             THEN RStrip(SubSeq(s, 1, Len(s) - 1)) ELSE s

(* str.strip() *)
Strip(s) == RStrip(LStrip(s))

(* str.isdigit(): non-empty and decimal digits only; a sign is no digit. *)
IsDigit(s) == s # <<>> /\ \A i \in 1..Len(s) : IsDigitChar(s[i])

RECURSIVE ParseNat(_)
ParseNat(s) == IF s = <<>> THEN 0
               ELSE 10 * ParseNat(SubSeq(s, 1, Len(s) - 1)) + DigitValue(s[Len(s)])

(* Iterating a text file: the lines, each with its line break. *)
RECURSIVE SplitLines(_, _)
SplitLines(text, cur) ==
    IF text = <<>> THEN (IF cur = <<>> THEN <<>> ELSE <<cur>>)
    ELSE IF Head(text) = "\n" THEN <<cur \o <<"\n">>>> \o SplitLines(Tail(text), <<>>)
    ELSE SplitLines(Tail(text), cur \o <<Head(text)>>)

Lines(text) == SplitLines(text, <<>>)

(* The module-level load of processed_groups from PROCESSED_FILE. *)
LoadProcessed(text) ==
    LET ls == Lines(text)
    IN {ParseNat(Strip(ls[i])) : i \in {j \in 1..Len(ls) : IsDigit(Strip(ls[j]))}}

(* The text mark_processed appends. *)
MarkerText(g) == IntStr(g) \o <<"\n">>

(***************************************************************************)
(* Alias expansion.                                                        *)
(***************************************************************************)
Lower(c) == CASE c = "A" -> "a" [] c = "B" -> "b" [] c = "C" -> "c"
              [] c = "D" -> "d" [] OTHER -> c

LowerStr(s) == [i \in 1..Len(s) |-> Lower(s[i])]

RECURSIVE RemovePunctuation(_)
RemovePunctuation(s) ==
    IF s = <<>> THEN <<>>
    ELSE IF Head(s) \in Punctuation THEN RemovePunctuation(Tail(s))
    ELSE <<Head(s)>> \o RemovePunctuation(Tail(s))

(* The variations with the cleaned string left unstripped. *)
generate_variations_unstripped(alias) ==
    LET lowered == Strip(LowerStr(alias))
        cleaned == RemovePunctuation(lowered)
    IN {lowered, cleaned}

generate_variations(alias) ==
    LET lowered == Strip(LowerStr(alias))
        cleaned == Strip(RemovePunctuation(lowered))
    IN {lowered, cleaned}

(***************************************************************************)
(* The data of the two stores and of the index: the school and aliases     *)
(* tables, the applicants flagged is_verified, and the candidates whose    *)
(* resume matches a phrase.  A school row with a NULL name yields the      *)
(* alias None, which the code skips as it skips an empty string.           *)
(***************************************************************************)
Catalog == {0 - 1} \cup (0..MaxGroupId)

VerifiedApplicants == {1, 3}

(* fetch_aliases: the alias rows of the group, then its name. *)
fetch_aliases(g) ==
    CASE g = 0 - 1 -> << <<"A", "b", "-">> >>
      [] g = 0 -> << <<>> >>
      [] g = 1 -> << <<"C", " ", "d">>, <<"c", "-", "d", " ">> >>
      [] OTHER -> << <<"c", "d">> >>

(* The candidates whose resume holds the phrase v. *)
Matches(v) ==
    CASE v = <<"a", "b", "-">> -> {1}
      [] v = <<"a", "b">> -> {1, 2}
      [] v = <<"c", " ", "d">> -> {2, 3}
      [] v = <<"c", "d">> -> {3}
      [] OTHER -> {}

(* The variations process_group collects for a group. *)
VariationsOf(aliases) ==
    UNION {generate_variations(aliases[i]) :
             i \in {j \in 1..Len(aliases) : aliases[j] # <<>>}}

RECURSIVE Perms(_)
Perms(S) == IF S = {} THEN {<<>>}
            ELSE UNION {{<<x>> \o p : p \in Perms(S \ {x})} : x \in S}

RECURSIVE Chunks(_)
Chunks(list) ==
    IF list = <<>> THEN <<>>
    ELSE LET n == IF Len(list) < batch_size THEN Len(list) ELSE batch_size
         IN <<{list[i] : i \in 1..n}>> \o Chunks(SubSeq(list, n + 1, Len(list)))

(* list(variations) is in the set's iteration order, which the language    *)
(* leaves open: every order, cut into slices of batch_size.                *)
BatchSplits(variations) == {Chunks(p) : p \in Perms(variations)}

(***************************************************************************)
(* The search backend: the result list of a query, served page by page     *)
(* through a scroll context.                                               *)
(***************************************************************************)
RECURSIVE SortedSeq(_)
SortedSeq(S) == IF S = {} THEN <<>>
                ELSE LET m == CHOOSE x \in S : \A y \in S : x <= y
                     IN <<m>> \o SortedSeq(S \ {m})

ResultList(batch) == SortedSeq(UNION {Matches(v) : v \in batch})

(* The candidates of page k (from 1) of a result list; {} past its end. *)
PageCids(list, k) ==
    {list[i] : i \in {j \in 1..Len(list) : (k - 1) * PageSize < j /\ j <= k * PageSize}}

(* NODE_PORTS = range(9500, 9541): one port more than the 40 nodes. *)
NODE_PORTS == NodePortsStart..(NodePortsStart + node_count)

(* The host ports generate_docker_compose.py publishes for the HTTP API. *)
PublishedPorts == {http_start_port + i - 1 : i \in 1..node_count}

(***************************************************************************)
(* State.                                                                  *)
(***************************************************************************)
VARIABLES
    file,              \* the text of PROCESSED_FILE
    processed_groups,  \* the set loaded from it when the process starts
    group_queue,       \* queue.Queue of group ids
    store,             \* committed rows (candidateid, groupid) of group_members
    sem,               \* permits opensearch_semaphore has left
    insert_lock,       \* 0, or the worker holding insert_lock
    run,               \* the number of the process run
    phase,             \* "running", or "finished" once main has joined every thread
    faults,            \* backend faults the environment may still inject
    pc,                \* each worker's place in process_group
    err,               \* "" or the call whose exception ended the worker's thread
    groupid,           \* process_group's groupid
    batches,           \* the batches of variations_list still to search
    candidateids,      \* process_group's candidateids
    outcomes,          \* history: how the batches searched for the group ended
    sb,                \* search_batch's locals, and the scroll context serving it
    verified_ids,      \* process_group's verified_ids
    txn,               \* rows inserted on the worker's connection, not yet committed
    marked,            \* history: <<g, verified_ids, outcomes>> of each marker of this run
    prev_failed,       \* history: the groups a store error ended in the run before
    expand             \* an alias, generate_variations of it, and of one of its variations

vars == <<file, processed_groups, group_queue, store, sem, insert_lock, run, phase,
          faults, pc, err, groupid, batches, candidateids, outcomes, sb, verified_ids, txn,
          marked, prev_failed, expand>>

shared == <<file, processed_groups, group_queue, store, sem, insert_lock, run, phase,
            faults, marked, prev_failed, expand>>

NoGroup == 0 - 99

(* search_batch's locals outside a call. *)
(* tries and picked are history: the requests.post calls made for the     *)
(* current request, and whether get_opensearch_url was called since the    *)
(* last of them.                                                           *)
NoSearch == [url |-> 0, req |-> "none", attempt |-> 0, wait |-> 0,
             scroll_id |-> FALSE, cids |-> {}, srv |-> 0, got |-> {},
             exhausted |-> "none", ret |-> {}, tries |-> 0, picked |-> FALSE]

(* How a returned search_batch call ended, for the history of the group:  *)
(* "empty" when the initial search used up its attempts (return []).       *)
BatchOutcome(locals) == IF locals.exhausted = "initial" THEN "empty" ELSE "ok"

(* No alias under expansion. *)
NoExpand == [stage |-> "none", alias |-> <<>>, variations |-> {}, of |-> <<>>, again |-> {}]

(* The calls that fail with a store error before the checkpoint write. *)
StoreCalls == {"fetch_aliases", "verify_candidateids", "insert_group_members", "commit"}

(* The groups whose processing a store error ended in this run. *)
FailedGroups == {groupid[w] : w \in {x \in Workers : err[x] \in StoreCalls}}

(* The state a process starts its worker threads in, given the checkpoint  *)
(* log it finds: main's SELECT id FROM school, in id order, filtered.      *)
Enqueued(loaded) == SortedSeq(Catalog \ loaded)

ProcessStart(text) ==
    /\ processed_groups' = LoadProcessed(text)
    /\ group_queue' = Enqueued(LoadProcessed(text))
    /\ sem' = PermitCapacity
    /\ insert_lock' = 0
    /\ phase' = "running"
    /\ pc' = [w \in Workers |-> "get"]
    /\ err' = [w \in Workers |-> ""]
    /\ groupid' = [w \in Workers |-> NoGroup]
    /\ batches' = [w \in Workers |-> <<>>]
    /\ candidateids' = [w \in Workers |-> {}]
    /\ outcomes' = [w \in Workers |-> {}]
    /\ sb' = [w \in Workers |-> NoSearch]
    /\ verified_ids' = [w \in Workers |-> {}]
    /\ txn' = [w \in Workers |-> {}]
    /\ marked' = {}
    /\ prev_failed' = FailedGroups

Init ==
    /\ file = <<>>
    /\ processed_groups = LoadProcessed(<<>>)
    /\ group_queue = Enqueued(LoadProcessed(<<>>))
    /\ store = {}
    /\ sem = PermitCapacity
    /\ insert_lock = 0
    /\ run = 1
    /\ phase = "running"
    /\ faults = MainFaults
    /\ pc = [w \in Workers |-> "get"]
    /\ err = [w \in Workers |-> ""]
    /\ groupid = [w \in Workers |-> NoGroup]
    /\ batches = [w \in Workers |-> <<>>]
    /\ candidateids = [w \in Workers |-> {}]
    /\ outcomes = [w \in Workers |-> {}]
    /\ sb = [w \in Workers |-> NoSearch]
    /\ verified_ids = [w \in Workers |-> {}]
    /\ txn = [w \in Workers |-> {}]
    /\ marked = {}
    /\ prev_failed = {}
    /\ expand = NoExpand

(***************************************************************************)
(* process_group.                                                          *)
(***************************************************************************)

(* An exception leaves process_group: nothing catches it, the thread ends, *)
(* and what its connection had not committed is never committed.           *)
Raise(w, call) ==
    /\ pc' = [pc EXCEPT ![w] = "dead"]
    /\ err' = [err EXCEPT ![w] = call]
    /\ batches' = [batches EXCEPT ![w] = <<>>]
    /\ candidateids' = [candidateids EXCEPT ![w] = {}]
    /\ outcomes' = [outcomes EXCEPT ![w] = {}]
    /\ sb' = [sb EXCEPT ![w] = NoSearch]
    /\ verified_ids' = [verified_ids EXCEPT ![w] = {}]
    /\ txn' = [txn EXCEPT ![w] = {}]
    /\ UNCHANGED groupid

(* A get that leaves the group in the queue. *)
DequeuePeek(w) ==
    /\ pc[w] = "get"
    /\ group_queue # <<>>
    /\ group_queue' = group_queue
    /\ IF Head(group_queue) \in processed_groups
       THEN UNCHANGED <<pc, groupid>>
       ELSE /\ pc' = [pc EXCEPT ![w] = "fetch"]
            /\ groupid' = [groupid EXCEPT ![w] = Head(group_queue)]
    /\ UNCHANGED <<file, processed_groups, store, sem, insert_lock, run, phase, faults,
                   err, batches, candidateids, outcomes, sb, verified_ids, txn, marked, prev_failed, expand>>

(* group_queue.get(timeout=5) returns a group; one in processed_groups is  *)
(* dropped with task_done() and the loop continues.                        *)
Dequeue(w) ==
    /\ pc[w] = "get"
    /\ group_queue # <<>>
    /\ group_queue' = Tail(group_queue)
    /\ IF Head(group_queue) \in processed_groups
       THEN UNCHANGED <<pc, groupid>>
       ELSE /\ pc' = [pc EXCEPT ![w] = "fetch"]
            /\ groupid' = [groupid EXCEPT ![w] = Head(group_queue)]
    /\ UNCHANGED <<file, processed_groups, store, sem, insert_lock, run, phase, faults,
                   err, batches, candidateids, outcomes, sb, verified_ids, txn, marked, prev_failed, expand>>

(* queue.Empty: the loop breaks, the connection is closed, the thread ends. *)
QueueEmpty(w) ==
    /\ pc[w] = "get"
    /\ group_queue = <<>>
    /\ pc' = [pc EXCEPT ![w] = "exited"]
    /\ UNCHANGED <<shared, err, groupid, batches, candidateids, outcomes, sb, verified_ids, txn>>

(* fetch_aliases, the variations, and their split into batches. *)
FetchAliases(w) ==
    /\ pc[w] = "fetch"
    /\ \E split \in BatchSplits(VariationsOf(fetch_aliases(groupid[w]))) :
          batches' = [batches EXCEPT ![w] = split]
    /\ candidateids' = [candidateids EXCEPT ![w] = {}]
    /\ outcomes' = [outcomes EXCEPT ![w] = {}]
    /\ pc' = [pc EXCEPT ![w] = "batches"]
    /\ UNCHANGED <<shared, err, groupid, sb, verified_ids, txn>>

FetchAliasesFails(w) ==
    /\ pc[w] = "fetch"
    /\ Raise(w, "fetch_aliases")
    /\ UNCHANGED shared

(* Acquire without waiting for a permit: the semaphore does not block. *)
AcquireUnguarded(w) ==
    /\ pc[w] = "batches"
    /\ batches[w] # <<>>
    /\ sem' = sem - 1
    /\ \E port \in NODE_PORTS :
          sb' = [sb EXCEPT ![w] = [NoSearch EXCEPT !.url = port, !.req = "initial", !.picked = TRUE]]
    /\ pc' = [pc EXCEPT ![w] = "sb_request"]
    /\ UNCHANGED <<file, processed_groups, group_queue, store, insert_lock, run, phase,
                   faults, err, groupid, batches, candidateids, outcomes, verified_ids, txn, marked,
                   prev_failed, expand>>

(* with opensearch_semaphore: entering search_batch, which picks its url. *)
Acquire(w) ==
    /\ pc[w] = "batches"
    /\ batches[w] # <<>>
    /\ sem > 0
    /\ sem' = sem - 1
    /\ \E port \in NODE_PORTS :
          sb' = [sb EXCEPT ![w] = [NoSearch EXCEPT !.url = port, !.req = "initial", !.picked = TRUE]]
    /\ pc' = [pc EXCEPT ![w] = "sb_request"]
    /\ UNCHANGED <<file, processed_groups, group_queue, store, insert_lock, run, phase,
                   faults, err, groupid, batches, candidateids, outcomes, verified_ids, txn, marked, prev_failed, expand>>

(* The loop over the batches has ended. *)
BatchesDone(w) ==
    /\ pc[w] = "batches"
    /\ batches[w] = <<>>
    /\ pc' = [pc EXCEPT ![w] = "verify"]
    /\ UNCHANGED <<shared, err, groupid, batches, candidateids, outcomes, sb, verified_ids, txn>>

(***************************************************************************)
(* search_batch.  A response is what requests.post returned with a 2xx     *)
(* status: whether its body is JSON, whether it carries _scroll_id, and    *)
(* its hits; a hit may lack _source, or candidateid in its _source.        *)
(***************************************************************************)
Anomalies == {"malformed", "nosource", "nocid", "noscroll"}

Hit(c) == [source |-> TRUE, cid |-> c]

Response(pagecids, anomaly) ==
    [json |-> anomaly # "malformed",
     scroll_id |-> anomaly # "noscroll",
     hits |-> {Hit(c) : c \in pagecids}
              \cup (IF anomaly = "nosource" THEN {[source |-> FALSE, cid |-> 0]}
                    ELSE IF anomaly = "nocid" THEN {[source |-> TRUE, cid |-> 0]}
                    ELSE {})]

(* set(hit["_source"]["candidateid"] for hit in hits                       *)
(*     if "candidateid" in hit["_source"]): a KeyError when a hit has no   *)
(* _source.                                                                *)
HitsRaise(hits) == \E h \in hits : ~h.source

HitCids(hits) == {h.cid : h \in {x \in hits : x.source /\ x.cid # 0}}

(* The node behind the url answers: its port is published, and a scroll    *)
(* request names a scroll context.                                         *)
Answers(w) ==
    /\ sb[w].url \in PublishedPorts
    /\ sb[w].req = "scroll" => sb[w].scroll_id

(* An exception inside the with block that keeps the permit. *)
SearchRaisesKeepsPermit(w) ==
    /\ Raise(w, "search_batch")
    /\ sem' = sem

(* An exception inside the with block: the permit is released on the way   *)
(* out of process_group.                                                   *)
SearchRaises(w) ==
    /\ Raise(w, "search_batch")
    /\ sem' = sem + 1

(* return: search_batch hands `result` to process_group. *)
Return(w, locals, result) ==
    /\ sb' = [sb EXCEPT ![w] = [locals EXCEPT !.ret = result]]
    /\ pc' = [pc EXCEPT ![w] = "sb_ret"]

(* The except branch returning [] in the scroll loop as well. *)
AttemptFailedDropsPages(w, served) ==
    LET locals == [sb[w] EXCEPT !.srv = served, !.tries = @ + 1, !.picked = FALSE]
    IN IF sb[w].attempt < max_retries - 1
       THEN /\ sb' = [sb EXCEPT ![w] = [locals EXCEPT !.wait = 2 ^ sb[w].attempt]]
            /\ pc' = [pc EXCEPT ![w] = "sb_sleep"]
       ELSE Return(w, [locals EXCEPT !.exhausted = sb[w].req], {})

(* The except branch with a wait that grows by one second an attempt. *)
AttemptFailedLinearBackoff(w, served) ==
    LET locals == [sb[w] EXCEPT !.srv = served, !.tries = @ + 1, !.picked = FALSE]
    IN IF sb[w].attempt < max_retries - 1
       THEN /\ sb' = [sb EXCEPT ![w] = [locals EXCEPT !.wait = sb[w].attempt + 1]]
            /\ pc' = [pc EXCEPT ![w] = "sb_sleep"]
       ELSE Return(w, [locals EXCEPT !.exhausted = sb[w].req],
                   IF sb[w].req = "initial" THEN {} ELSE sb[w].cids)

(* The except branch of either retry loop, the scroll context having       *)
(* served `served` pages by now.                                           *)
AttemptFailed(w, served) ==
    LET locals == [sb[w] EXCEPT !.srv = served, !.tries = @ + 1, !.picked = FALSE]
    IN IF sb[w].attempt < max_retries - 1
       THEN /\ sb' = [sb EXCEPT ![w] = [locals EXCEPT !.wait = 2 ^ sb[w].attempt]]
            /\ pc' = [pc EXCEPT ![w] = "sb_sleep"]
       ELSE Return(w, [locals EXCEPT !.exhausted = sb[w].req],
                   IF sb[w].req = "initial" THEN {} ELSE sb[w].cids)

(* requests.post or raise_for_status raises a RequestException: nothing    *)
(* listens on the port, the scroll request names no scroll context, or a   *)
(* transient failure (timeout, connection error, non-2xx status).          *)
RequestFails(w) ==
    /\ pc[w] = "sb_request"
    /\ IF Answers(w) THEN faults > 0 /\ faults' = faults - 1 ELSE faults' = faults
    /\ AttemptFailed(w, sb[w].srv)
    /\ UNCHANGED <<file, processed_groups, group_queue, store, sem, insert_lock, run,
                   phase, err, groupid, batches, candidateids, outcomes, verified_ids, txn, marked, prev_failed, expand>>

(* The backend serves the next page of the scroll, and the response does   *)
(* not reach the client (a timeout).                                       *)
ScrollResponseLost(w) ==
    /\ pc[w] = "sb_request"
    /\ sb[w].req = "scroll"
    /\ Answers(w)
    /\ faults > 0
    /\ faults' = faults - 1
    /\ AttemptFailed(w, sb[w].srv + 1)
    /\ UNCHANGED <<file, processed_groups, group_queue, store, sem, insert_lock, run,
                   phase, err, groupid, batches, candidateids, outcomes, verified_ids, txn, marked, prev_failed, expand>>

(* time.sleep(wait_time) ends: the next attempt of the same request. *)
WakeUp(w) ==
    /\ pc[w] = "sb_sleep"
    /\ sb' = [sb EXCEPT ![w].attempt = @ + 1, ![w].wait = 0]
    /\ pc' = [pc EXCEPT ![w] = "sb_request"]
    /\ UNCHANGED <<shared, err, groupid, batches, candidateids, outcomes, verified_ids, txn>>

(* The initial search succeeds: lines 102-105, and the test of the while.  *)
InitialResponse(w) ==
    /\ pc[w] = "sb_request"
    /\ sb[w].req = "initial"
    /\ Answers(w)
    /\ \E anomaly \in Anomalies \cup {"none"} :
         LET res == Response(PageCids(ResultList(Head(batches[w])), 1), anomaly)
             locals == [sb[w] EXCEPT !.srv = 1, !.scroll_id = res.scroll_id,
                                     !.cids = HitCids(res.hits), !.got = {1},
                                     !.tries = @ + 1, !.picked = FALSE]
         IN /\ IF anomaly = "none" THEN faults' = faults
               ELSE faults > 0 /\ faults' = faults - 1
            /\ IF ~res.json \/ HitsRaise(res.hits)
               THEN SearchRaises(w)
               ELSE /\ IF res.hits = {}
                       THEN Return(w, locals, locals.cids)
                       ELSE /\ sb' = [sb EXCEPT ![w] =
                                        [locals EXCEPT !.req = "scroll", !.attempt = 0,
                                                       !.tries = 0]]
                            /\ UNCHANGED pc
                    /\ UNCHANGED <<sem, err, groupid, batches, candidateids, outcomes,
                                   verified_ids, txn>>
    /\ UNCHANGED <<file, processed_groups, group_queue, store, insert_lock, run, phase,
                   marked, prev_failed, expand>>

(* A scroll request succeeds: lines 127-132, and the next test of the      *)
(* while.                                                                  *)
ScrollResponse(w) ==
    /\ pc[w] = "sb_request"
    /\ sb[w].req = "scroll"
    /\ Answers(w)
    /\ \E anomaly \in Anomalies \cup {"none"} :
         LET page == sb[w].srv + 1
             res == Response(PageCids(ResultList(Head(batches[w])), page), anomaly)
             served == [sb[w] EXCEPT !.srv = page, !.tries = @ + 1, !.picked = FALSE]
         IN /\ IF anomaly = "none" THEN faults' = faults
               ELSE faults > 0 /\ faults' = faults - 1
            /\ IF ~res.json \/ (res.hits # {} /\ HitsRaise(res.hits))
               THEN SearchRaises(w)
               ELSE /\ IF res.hits = {}
                       THEN Return(w, served, sb[w].cids)
                       ELSE /\ sb' = [sb EXCEPT ![w] =
                                        [served EXCEPT !.scroll_id = res.scroll_id,
                                                       !.cids = @ \cup HitCids(res.hits),
                                                       !.got = @ \cup {page},
                                                       !.attempt = 0, !.tries = 0]]
                            /\ UNCHANGED pc
                    /\ UNCHANGED <<sem, err, groupid, batches, candidateids, outcomes,
                                   verified_ids, txn>>
    /\ UNCHANGED <<file, processed_groups, group_queue, store, insert_lock, run, phase,
                   marked, prev_failed, expand>>

(* candidateids.update(batch_candidateids), and the with block ends. *)
Release(w) ==
    /\ pc[w] = "sb_ret"
    /\ candidateids' = [candidateids EXCEPT ![w] = @ \cup sb[w].ret]
    /\ outcomes' = [outcomes EXCEPT ![w] = @ \cup {BatchOutcome(sb[w])}]
    /\ sem' = sem + 1
    /\ batches' = [batches EXCEPT ![w] = Tail(@)]
    /\ sb' = [sb EXCEPT ![w] = NoSearch]
    /\ pc' = [pc EXCEPT ![w] = "batches"]
    /\ UNCHANGED <<file, processed_groups, group_queue, store, insert_lock, run, phase,
                   faults, err, groupid, verified_ids, txn, marked, prev_failed, expand>>

(***************************************************************************)
(* Verification, the membership write, and the checkpoint.                 *)
(***************************************************************************)

(* A verification that returns every verified applicant, whatever it is    *)
(* asked about.                                                            *)
verify_candidateids_unfiltered(ids) == VerifiedApplicants

(* verify_candidateids: the ids the applicants table flags is_verified.    *)
(* The candidates of the model fit one slice of batch_size 5000.           *)
verify_candidateids(ids) == ids \cap VerifiedApplicants

(* insert_group_members: INSERT IGNORE adds the rows not yet there. *)
insert_group_members(g, ids) == {<<c, g>> : c \in ids} \ store

Verify(w) ==
    /\ pc[w] = "verify"
    /\ verified_ids' = [verified_ids EXCEPT ![w] = verify_candidateids(candidateids[w])]
    /\ pc' = [pc EXCEPT ![w] = "insert"]
    /\ UNCHANGED <<shared, err, groupid, batches, candidateids, outcomes, sb, txn>>

(* The failure of the verification handled by marking the group all the   *)
(* same before the thread ends.                                            *)
VerifyFailsMarked(w) ==
    /\ pc[w] = "verify"
    /\ candidateids[w] # {}
    /\ Raise(w, "verify_candidateids")
    /\ file' = file \o MarkerText(groupid[w])
    /\ marked' = marked \cup {<<groupid[w], {}, outcomes[w]>>}
    /\ UNCHANGED <<processed_groups, group_queue, store, sem, insert_lock, run, phase,
                   faults, prev_failed, expand>>

(* cursor.execute raises; with no candidate there is no query to fail. *)
VerifyFails(w) ==
    /\ pc[w] = "verify"
    /\ candidateids[w] # {}
    /\ Raise(w, "verify_candidateids")
    /\ UNCHANGED shared

Insert(w) ==
    /\ pc[w] = "insert"
    /\ txn' = [txn EXCEPT ![w] = insert_group_members(groupid[w], verified_ids[w])]
    /\ pc' = [pc EXCEPT ![w] = "commit"]
    /\ UNCHANGED <<shared, err, groupid, batches, candidateids, outcomes, sb, verified_ids>>

(* cursor.executemany raises; with no row it executes nothing. *)
InsertFails(w) ==
    /\ pc[w] = "insert"
    /\ verified_ids[w] # {}
    /\ Raise(w, "insert_group_members")
    /\ UNCHANGED shared

(* The membership write without conn.commit(): the rows stay uncommitted. *)
CommitLost(w) ==
    /\ pc[w] = "commit"
    /\ pc' = [pc EXCEPT ![w] = "mark"]
    /\ UNCHANGED <<shared, err, groupid, batches, candidateids, outcomes, sb, verified_ids, txn>>

Commit(w) ==
    /\ pc[w] = "commit"
    /\ store' = store \cup txn[w]
    /\ txn' = [txn EXCEPT ![w] = {}]
    /\ pc' = [pc EXCEPT ![w] = "mark"]
    /\ UNCHANGED <<file, processed_groups, group_queue, sem, insert_lock, run, phase,
                   faults, err, groupid, batches, candidateids, outcomes, sb, verified_ids, marked, prev_failed, expand>>

CommitFails(w) ==
    /\ pc[w] = "commit"
    /\ Raise(w, "commit")
    /\ UNCHANGED shared

(* mark_processed entered without waiting for insert_lock. *)
MarkAcquireUnguarded(w) ==
    /\ pc[w] = "mark"
    /\ insert_lock' = w
    /\ pc' = [pc EXCEPT ![w] = "mark_write"]
    /\ UNCHANGED <<file, processed_groups, group_queue, store, sem, run, phase, faults,
                   err, groupid, batches, candidateids, outcomes, sb, verified_ids, txn, marked, prev_failed, expand>>

(* mark_processed: with insert_lock. *)
MarkAcquire(w) ==
    /\ pc[w] = "mark"
    /\ insert_lock = 0
    /\ insert_lock' = w
    /\ pc' = [pc EXCEPT ![w] = "mark_write"]
    /\ UNCHANGED <<file, processed_groups, group_queue, store, sem, run, phase, faults,
                   err, groupid, batches, candidateids, outcomes, sb, verified_ids, txn, marked, prev_failed, expand>>

(* The file is opened for append, the line written, the file closed, the   *)
(* lock released; then task_done() and the next turn of the loop.          *)
MarkWrite(w) ==
    /\ pc[w] = "mark_write"
    /\ file' = file \o MarkerText(groupid[w])
    /\ marked' = marked \cup {<<groupid[w], verified_ids[w], outcomes[w]>>}
    /\ insert_lock' = 0
    /\ pc' = [pc EXCEPT ![w] = "get"]
    /\ groupid' = [groupid EXCEPT ![w] = NoGroup]
    /\ candidateids' = [candidateids EXCEPT ![w] = {}]
    /\ outcomes' = [outcomes EXCEPT ![w] = {}]
    /\ verified_ids' = [verified_ids EXCEPT ![w] = {}]
    /\ UNCHANGED <<processed_groups, group_queue, store, sem, run, phase, faults,
                   err, batches, sb, txn, prev_failed, expand>>

(* open or write raises an OSError: the lock is released on the way out. *)
MarkWriteFails(w) ==
    /\ pc[w] = "mark_write"
    /\ insert_lock' = 0
    /\ Raise(w, "mark_processed")
    /\ UNCHANGED <<file, processed_groups, group_queue, store, sem, run, phase, faults,
                   marked, prev_failed, expand>>

(***************************************************************************)
(* The process.                                                            *)
(***************************************************************************)
Terminated(w) == pc[w] \in {"exited", "dead"}

(* main has joined every thread, and returns. *)
MainReturns ==
    /\ phase = "running"
    /\ \A w \in Workers : Terminated(w)
    /\ phase' = "finished"
    /\ UNCHANGED <<file, processed_groups, group_queue, store, sem, insert_lock, run,
                   faults, pc, err, groupid, batches, candidateids, outcomes, sb, verified_ids,
                   txn, marked, prev_failed, expand>>

(* The process has ended, by returning from main or by being killed at any *)
(* point, and the script is started again: the file and the committed rows *)
(* are what is left of the run before.                                     *)
Restart ==
    /\ run < MaxRuns
    /\ run' = run + 1
    /\ ProcessStart(file)
    /\ UNCHANGED <<file, store, faults, expand>>

Next ==
    \/ \E w \in Workers :
          \/ Dequeue(w)
          \/ QueueEmpty(w)
          \/ FetchAliases(w)
          \/ FetchAliasesFails(w)
          \/ Acquire(w)
          \/ BatchesDone(w)
          \/ RequestFails(w)
          \/ ScrollResponseLost(w)
          \/ WakeUp(w)
          \/ InitialResponse(w)
          \/ ScrollResponse(w)
          \/ Release(w)
          \/ Verify(w)
          \/ VerifyFails(w)
          \/ Insert(w)
          \/ InsertFails(w)
          \/ Commit(w)
          \/ CommitFails(w)
          \/ MarkAcquire(w)
          \/ MarkWrite(w)
          \/ MarkWriteFails(w)
    \/ MainReturns
    \/ Restart

Spec == Init /\ [][Next]_vars

(***************************************************************************)
(* One call of search_batch on its own: a worker about to search the       *)
(* batches of a group, against a backend that may fail SearchFaults times. *)
(***************************************************************************)
InitSearch ==
    /\ file = <<>>
    /\ processed_groups = LoadProcessed(<<>>)
    /\ group_queue = <<>>
    /\ store = {}
    /\ sem = PermitCapacity
    /\ insert_lock = 0
    /\ run = 1
    /\ phase = "running"
    /\ faults = SearchFaults
    /\ \E g \in Catalog :
         /\ groupid = [w \in Workers |-> IF w = 1 THEN g ELSE NoGroup]
         /\ \E split \in BatchSplits(VariationsOf(fetch_aliases(g))) :
              batches = [w \in Workers |-> IF w = 1 THEN split ELSE <<>>]
    /\ pc = [w \in Workers |-> IF w = 1 THEN "batches" ELSE "exited"]
    /\ err = [w \in Workers |-> ""]
    /\ candidateids = [w \in Workers |-> {}]
    /\ outcomes = [w \in Workers |-> {}]
    /\ sb = [w \in Workers |-> NoSearch]
    /\ verified_ids = [w \in Workers |-> {}]
    /\ txn = [w \in Workers |-> {}]
    /\ marked = {}
    /\ prev_failed = {}
    /\ expand = NoExpand

NextSearch ==
    \E w \in Workers :
       \/ Acquire(w)
       \/ RequestFails(w)
       \/ ScrollResponseLost(w)
       \/ WakeUp(w)
       \/ InitialResponse(w)
       \/ ScrollResponse(w)
       \/ Release(w)

SpecSearch == InitSearch /\ [][NextSearch]_vars

(***************************************************************************)
(* Notions the properties share.                                           *)
(***************************************************************************)
InQueue(g, q) == \E i \in 1..Len(q) : q[i] = g

(***************************************************************************)
(* generate_variations on its own: an alias of up to MaxAliasLen           *)
(* characters (a capital, a small letter, punctuation, a blank) is         *)
(* expanded, then one of its variations is expanded in turn.               *)
(***************************************************************************)
AliasChars == {"A", "b", "-", " "}

Aliases == UNION {[1..n -> AliasChars] : n \in 0..MaxAliasLen}

InitExpand ==
    /\ file = <<>>
    /\ processed_groups = LoadProcessed(<<>>)
    /\ group_queue = <<>>
    /\ store = {}
    /\ sem = PermitCapacity
    /\ insert_lock = 0
    /\ run = 1
    /\ phase = "running"
    /\ faults = 0
    /\ pc = [w \in Workers |-> "exited"]
    /\ err = [w \in Workers |-> ""]
    /\ groupid = [w \in Workers |-> NoGroup]
    /\ batches = [w \in Workers |-> <<>>]
    /\ candidateids = [w \in Workers |-> {}]
    /\ outcomes = [w \in Workers |-> {}]
    /\ sb = [w \in Workers |-> NoSearch]
    /\ verified_ids = [w \in Workers |-> {}]
    /\ txn = [w \in Workers |-> {}]
    /\ marked = {}
    /\ prev_failed = {}
    /\ \E a \in Aliases : expand = [NoExpand EXCEPT !.stage = "alias", !.alias = a]

(* variations.update(generate_variations(alias)) *)
Expand ==
    /\ expand.stage = "alias"
    /\ expand' = [expand EXCEPT !.stage = "expanded",
                                !.variations = generate_variations(expand.alias)]
    /\ UNCHANGED <<file, processed_groups, group_queue, store, sem, insert_lock, run,
                   phase, faults, pc, err, groupid, batches, candidateids, outcomes, sb,
                   verified_ids, txn, marked, prev_failed>>

(* generate_variations applied to a string it returned. *)
ReExpand ==
    /\ expand.stage = "expanded"
    /\ \E v \in expand.variations :
          expand' = [expand EXCEPT !.stage = "again", !.of = v,
                                   !.again = generate_variations(v)]
    /\ UNCHANGED <<file, processed_groups, group_queue, store, sem, insert_lock, run,
                   phase, faults, pc, err, groupid, batches, candidateids, outcomes, sb,
                   verified_ids, txn, marked, prev_failed>>

NextExpand == Expand \/ ReExpand

SpecExpand == InitExpand /\ [][NextExpand]_vars

(* The worker is inside the with block of the permit. *)
Searching(w) == pc[w] \in {"sb_request", "sb_sleep", "sb_ret"}

MarkedGroups == {m[1] : m \in marked}

(* The number of lines of the log that are the marker of g. *)
MarkerCount(text, g) ==
    LET ls == Lines(text)
    IN Cardinality({i \in 1..Len(ls) : ls[i] = MarkerText(g)})

(***************************************************************************)
(* Properties.                                                             *)
(***************************************************************************)

(* C1: whenever the marker of a group g has been appended to the           *)
(* checkpoint log in this run, every row (v, g), v a verified candidate    *)
(* the marking worker computed for g, is committed in the store; no        *)
(* interleaving, exception or kill of the process yields a marker without  *)
(* its rows.                                                               *)
C1_MarkerAfterCommit ==
    \A m \in marked : \A v \in m[2] : <<v, m[1]>> \in store

(* C1 witness: a marker was appended for a group with verified candidates, *)
(* in a run in which another worker's thread was ended by an exception.    *)
C1_Witness ==
    /\ \E m \in marked : m[2] # {} /\ MarkerCount(file, m[1]) >= 1
    /\ \E w \in Workers : pc[w] = "dead"

(* C2: at most PermitCapacity workers are inside search_batch, with more   *)
(* workers than permits, whatever they do inside it (requests, retries,    *)
(* sleeps).                                                                *)
C2_Ceiling ==
    Cardinality({w \in Workers : Searching(w)}) <= PermitCapacity

(* C2 witness: every permit is taken, a searching worker is asleep between *)
(* two attempts, and another worker waits for a permit.                    *)
C2_Witness ==
    /\ Cardinality({w \in Workers : Searching(w)}) = PermitCapacity
    /\ \E w \in Workers : pc[w] = "sb_sleep"
    /\ \E w \in Workers : pc[w] = "batches" /\ batches[w] # <<>>

(* C3 as claimed: a store error (alias lookup, verification, membership    *)
(* write, commit or checkpoint write) while a worker processes a group     *)
(* does not end the worker, which stays able to dequeue the next group.    *)
C3_WorkerSurvivesStoreError ==
    \A w \in Workers : err[w] \in StoreCalls \cup {"mark_processed"} => ~Terminated(w)

(* C4 as claimed: when the run ends, every group enqueued at its start was *)
(* dequeued, however many groups failed.                                   *)
C4_EveryGroupDequeued ==
    phase = "finished" => group_queue = <<>>

(* C5: a group whose processing a store error ended (alias lookup,         *)
(* verification, membership write, commit) is not among the markers this   *)
(* run appended, and when the process is started again it is not in the    *)
(* processed set loaded and it is enqueued.                                *)
C5_FailedGroupRetried ==
    [][/\ FailedGroups' \cap MarkedGroups' = {}
       /\ run' = run + 1 =>
            \A g \in FailedGroups : g \notin processed_groups' /\ InQueue(g, group_queue')]_vars

(* C5 witness: a run started after a run in which a group failed, with     *)
(* another group of that run marked; the failed group is queued again.     *)
C5_Witness ==
    /\ run = 2
    /\ processed_groups # {}
    /\ \E g \in prev_failed : g \notin processed_groups /\ InQueue(g, group_queue)

(* C6 as claimed: every group id whose marker mark_processed appended is   *)
(* in the processed set the next process loads from the log.               *)
C6_RoundTrip ==
    [][run' = run + 1 => \A g \in MarkedGroups : g \in processed_groups']_vars

(* C7 as claimed: a group whose marker is in the checkpoint log when a run *)
(* starts is not enqueued by that run.                                     *)
C7_MarkedNotEnqueued ==
    [][run' = run + 1 =>
         \A g \in Catalog : MarkerCount(file', g) >= 1 => ~InQueue(g, group_queue')]_vars

(* C8 as claimed: no exception leaves search_batch, whatever the backend   *)
(* answers.                                                                *)
C8_SearchNeverRaises ==
    \A w \in Workers : err[w] # "search_batch"

(* C9: a search_batch that returns because the initial search ran out of   *)
(* retries returns no candidate; one that returns because a scroll request *)
(* ran out of retries returns exactly the candidates of the pages it       *)
(* received; and once it has returned, the scroll context serves no page   *)
(* more.                                                                   *)
C9_PartialResult ==
    [][\A w \in Workers :
         /\ (pc'[w] = "sb_ret" /\ sb'[w].exhausted = "initial") => sb'[w].ret = {}
         /\ (pc'[w] = "sb_ret" /\ sb'[w].exhausted = "scroll") =>
               /\ sb'[w].got # {}
               /\ sb'[w].ret = UNION {PageCids(ResultList(Head(batches'[w])), k) :
                                        k \in sb'[w].got}
         /\ pc[w] = "sb_ret" => pc'[w] \notin {"sb_request", "sb_sleep"}]_vars

(* C9 witness: five failed attempts of a scroll request, after pages with  *)
(* candidates were received; the call has returned them.                   *)
C9_Witness ==
    \E w \in Workers :
       /\ pc[w] = "sb_ret"
       /\ sb[w].exhausted = "scroll"
       /\ sb[w].attempt = max_retries - 1
       /\ sb[w].ret # {}
       /\ sb[w].scroll_id

(* C10 as claimed: after the process has run twice, the checkpoint log     *)
(* holds the id of a processed group once.                                 *)
C10_MarkerOnce ==
    \A g \in Catalog : MarkerCount(file, g) <= 1

(* C11: a request of search_batch (the initial search, each scroll         *)
(* request) is posted at most max_retries = 5 times; after its failed      *)
(* attempt k = 0..3 the worker sleeps 2^k seconds; the fifth failure       *)
(* returns without a sleep; and the count starts again at 0 for the next   *)
(* request.                                                                *)
C11_RetryBackoff ==
    [][\A w \in Workers :
         /\ sb'[w].tries <= max_retries
         /\ pc'[w] = "sb_sleep" =>
               /\ sb'[w].tries \in 1..(max_retries - 1)
               /\ sb'[w].wait = 2 ^ (sb'[w].tries - 1)
         /\ (pc[w] = "sb_request" /\ pc'[w] = "sb_ret" /\ sb'[w].exhausted # "none") =>
               sb'[w].tries = max_retries /\ sb'[w].wait = 0 /\ sb[w].tries = max_retries - 1
         /\ (pc[w] = "sb_request" /\ pc'[w] = "sb_request" /\ sb'[w] # sb[w]) =>
               sb'[w].tries = 0 /\ sb'[w].attempt = 0
         /\ (pc[w] = "sb_sleep" /\ pc'[w] = "sb_request") =>
               sb'[w].attempt = sb'[w].tries]_vars

(* C11 witness: the fourth attempt of a scroll request for a third page    *)
(* has failed, and the worker sleeps 8 seconds.                            *)
C11_Witness ==
    \E w \in Workers :
       /\ pc[w] = "sb_sleep"
       /\ sb[w].req = "scroll"
       /\ Cardinality(sb[w].got) >= 2
       /\ sb[w].tries = max_retries - 1
       /\ sb[w].wait = 8

(* C12 as claimed: every request attempt (the initial search, a scroll     *)
(* request, a retry) is posted to an endpoint get_opensearch_url picked    *)
(* for that attempt.                                                       *)
C12_PickPerAttempt ==
    \A w \in Workers : pc[w] = "sb_request" => sb[w].picked

(* C14 as claimed: a search_batch call in which no request exhausted its   *)
(* retries returns the candidate ids of every page of the result set.      *)
C14_AllPagesReturned ==
    \A w \in Workers :
       (pc[w] = "sb_ret" /\ sb[w].exhausted = "none") =>
           sb[w].ret = UNION {Matches(v) : v \in Head(batches[w])}

(* C19 as claimed: every endpoint a search is posted to is the HTTP port   *)
(* of a node the generated docker-compose file publishes.                  *)
C19_EndpointPublished ==
    \A w \in Workers : Searching(w) => sb[w].url \in PublishedPorts

(* C15: the permits of opensearch_semaphore that are held are as many as   *)
(* the workers inside the with block of a batch search: a permit is given  *)
(* back when search_batch returns (in full or degraded) and when it        *)
(* raises, and a worker waiting on the queue, verifying, inserting,        *)
(* committing, checkpointing or ended holds none.                          *)
C15_PermitsHeld ==
    /\ sem \in 0..PermitCapacity
    /\ PermitCapacity - sem = Cardinality({w \in Workers : Searching(w)})

(* C15 witness: a worker's search has raised and given its permit back, a  *)
(* degraded search of another worker holds the only permit.                *)
C15_Witness ==
    \E w1, w2 \in Workers :
       /\ pc[w1] = "dead" /\ err[w1] = "search_batch"
       /\ pc[w2] = "sb_ret" /\ sb[w2].exhausted # "none"
       /\ sem = PermitCapacity - 1

(* C16: at most one worker is between the open and the close of            *)
(* mark_processed, it is the holder of insert_lock, and every line of the  *)
(* checkpoint log is the complete id of one group of the catalog, one line *)
(* for each call made.                                                     *)
C16_AppendExclusive ==
    /\ Cardinality({w \in Workers : pc[w] = "mark_write"}) <= 1
    /\ \A w \in Workers : pc[w] = "mark_write" <=> insert_lock = w
    /\ \A i \in 1..Len(Lines(file)) : \E g \in Catalog : Lines(file)[i] = MarkerText(g)
    /\ run = 1 => Len(Lines(file)) = Cardinality(marked)

(* C16 witness: a worker is appending to a log that has a line already,    *)
(* while another worker waits for insert_lock.                             *)
C16_Witness ==
    \E w1, w2 \in Workers :
       /\ pc[w1] = "mark_write"
       /\ pc[w2] = "mark"
       /\ file # <<>>

(* C17 as claimed: when main has returned, every worker had found the      *)
(* queue empty and exited.                                                 *)
C17_WorkersExitOnEmptyQueue ==
    phase = "finished" => \A w \in Workers : pc[w] = "exited"

(* C18: within a run a group enqueued at startup is in the queue once, or  *)
(* held by exactly one worker, or marked once, never two of these; no two  *)
(* workers hold the same group.                                            *)
C18_GroupDequeuedOnce ==
    LET held == {groupid[w] : w \in Workers} \ {NoGroup}
        queued == {group_queue[i] : i \in 1..Len(group_queue)}
    IN /\ \A i, j \in 1..Len(group_queue) : group_queue[i] = group_queue[j] => i = j
       /\ \A w1, w2 \in Workers :
             (groupid[w1] # NoGroup /\ groupid[w1] = groupid[w2]) => w1 = w2
       /\ queued \cap held = {}
       /\ queued \cap MarkedGroups = {}
       /\ held \cap MarkedGroups = {}
       /\ queued \cup held \cup MarkedGroups = Catalog \ processed_groups
       /\ \A m1, m2 \in marked : m1[1] = m2[1] => m1 = m2

(* C18 witness: the queue is drained, a group is marked, and two workers   *)
(* are at work on two other groups.                                        *)
C18_Witness ==
    \E w1, w2 \in Workers :
       /\ w1 # w2
       /\ pc[w1] \in {"verify", "insert", "commit", "mark"}
       /\ pc[w2] \in {"sb_request", "sb_ret", "verify", "insert"}
       /\ groupid[w1] # groupid[w2]
       /\ marked # {}
       /\ group_queue = <<>>

(* C13: generate_variations applied to a string of generate_variations(a)  *)
(* returns strings of generate_variations(a) only, for every alias a.      *)
C13_Idempotent ==
    expand.stage = "again" =>
        /\ expand.of \in expand.variations
        /\ expand.again \subseteq expand.variations
        /\ expand.variations = generate_variations(expand.alias)

(* C13 witness: an alias with a capital, a blank and punctuation has two   *)
(* variations, and the one that kept its punctuation was expanded again.   *)
C13_Witness ==
    /\ expand.stage = "again"
    /\ Cardinality(expand.variations) = 2
    /\ expand.alias = <<"A", " ", "-">>
    /\ expand.of = <<"a", " ", "-">>
    /\ Cardinality(expand.again) = 2

====
